---- MODULE Spec2Model ----
(***************************************************************************)
(* The chatbot backend: the conversation graph of graph.py (conversation   *)
(* -> maybe summarize_conversation -> end, checkpointed in one MemorySaver *)
(* per process) and the HTTP handlers of server.py that run it.            *)
(*                                                                         *)
(* A text is a sequence of tokens (naturals); a message is a record        *)
(* [id, type, content].  A thread's checkpoint holds the graph's channels: *)
(* messages (a sequence) and summary (<<>> while the channel was never     *)
(* written, <<text>> once it was).  The graph writes a checkpoint after    *)
(* every superstep, so each step action below ends with its put.           *)
(***************************************************************************)
EXTENDS Integers, Sequences, FiniteSets, TLC

\* ------------------------------------------------------------- bounds
\* Requests (invoke, stream, get, delete) served over a run.
MaxRequests == 3
\* Oracle calls that fail over a run.
MaxFailures == 1
\* Longest input.messages list of a request.
MaxInput == 4
\* Requests served over a run followed for its liveness.
MaxFairRequests == 2

\* ------------------------------------------------- program constants
\* graph.py:53  len(messages) > 6
SummarizeThreshold == 6
\* graph.py:70  state["messages"][:-2]
KeepLast == 2

Threads == {"t1", "t2"}
Slots == {1, 2}

\* The content a client sends; the oracle's n-th answer within a thread is
\* the marker text <<n>>, distinct per call.
HumanText == <<0>>
EmptyText == <<>>
NoId == 0

VARIABLES
    store,      \* MemorySaver: thread -> latest checkpoint
    nextId,     \* thread -> next fresh message id (uuid4 / run id)
    calls,      \* thread -> oracle answers given so far
    req,        \* slot -> the request a handler is serving
    obs,        \* slot -> what was observed of that request so far (history)
    last,       \* the request answered last, its response and observations
                \* (history), until the next graph run starts
    removed,    \* thread -> ids removed by compactions (history)
    seen,       \* threads some invoke, stream or delete named (history)
    nreq,       \* requests served so far
    nfail       \* oracle failures so far

vars == <<store, nextId, calls, req, obs, last, removed, seen, nreq, nfail>>

\* ------------------------------------------------------------ helpers
AllButLast(s, n) == SubSeq(s, 1, IF Len(s) > n THEN Len(s) - n ELSE 0)
Ids(s) == {s[i].id : i \in 1..Len(s)}

\* graph.py:34-35  State(MessagesState): the channels of a thread
NoChannels == [messages |-> <<>>, summary |-> <<>>]
NoCheckpoint == [exists |-> FALSE, values |-> NoChannels]
Checkpoint(values) == [exists |-> TRUE, values |-> values]

\* graph.py:39 / graph.py:58 / server.py:174   state.get("summary", "")
GetSummary(values) == IF values.summary = <<>> THEN EmptyText ELSE values.summary[1]

add_messages_NewestFirst(left, right) ==
    IF right # <<>> /\ Head(right).type = "remove"
    THEN SelectSeq(left, LAMBDA x : x.id \notin Ids(right))
    ELSE right \o left
\* langgraph add_messages, the reducer of MessagesState.messages: a
\* RemoveMessage deletes the message of its id, a message whose id is
\* already stored replaces it, any other message is appended.
RECURSIVE add_messages(_, _)
add_messages(left, right) ==
    IF right = <<>> THEN left
    ELSE LET m == Head(right)
             merged ==
                 IF m.type = "remove"
                 THEN SelectSeq(left, LAMBDA x : x.id # m.id)
                 ELSE IF m.id \in Ids(left)
                 THEN [i \in 1..Len(left) |-> IF left[i].id = m.id THEN m ELSE left[i]]
                 ELSE Append(left, m)
         IN add_messages(merged, Tail(right))

\* The input dicts carry no id: add_messages gives each a fresh one.
AssignIds(msgs, next) ==
    [i \in 1..Len(msgs) |-> [id |-> next + i - 1, type |-> msgs[i].type, content |-> msgs[i].content]]

\* The oracle's answer to the n-th call of a thread.
OracleReply(n) == <<n>>


\* ---------------------------------------------------------- graph.py
\* graph.py:41  f"Summary of conversation earlier: {summary}"
SummaryPrefix == <<-1>>
\* graph.py:60-63  "This is summary of the conversation to date: {summary}\n\nExtend ..."
ExtendPrefix == <<-2>>
ExtendSuffix == <<-3>>
\* graph.py:65  "Create a summary of the conversation above:"
CreatePrompt == <<-4>>

CallModelInput_NoSummary(values) == values.messages
\* graph.py:38-44  call_model: the messages handed to model.invoke
CallModelInput(values) ==
    LET summary == GetSummary(values)
    IN IF summary # EmptyText
       THEN <<[id |-> NoId, type |-> "system", content |-> SummaryPrefix \o summary]>>
                \o values.messages
       ELSE values.messages

call_model_ReplyFirst(values, response) ==
    [values EXCEPT !.messages = <<response>> \o @]
\* graph.py:46-48  call_model: the state update {"messages": [response]}
call_model(values, response) ==
    [values EXCEPT !.messages = add_messages(@, <<response>>)]

should_continue_NoCompaction(values) == "__end__"
should_continue_Early(values) ==
    IF Len(values.messages) >= SummarizeThreshold THEN "summarize_conversation" ELSE "__end__"
should_continue_Late(values) ==
    IF Len(values.messages) > SummarizeThreshold + 1 THEN "summarize_conversation" ELSE "__end__"
\* graph.py:51-55  should_continue
should_continue(values) ==
    IF Len(values.messages) > SummarizeThreshold THEN "summarize_conversation" ELSE "__end__"

\* graph.py:58-67  summarize_conversation: the messages handed to model.invoke
SummarizeInput(values) ==
    LET summary == GetSummary(values)
        summary_message == IF summary # EmptyText
                           THEN ExtendPrefix \o summary \o ExtendSuffix
                           ELSE CreatePrompt
    IN values.messages \o <<[id |-> NoId, type |-> "human", content |-> summary_message]>>

DeleteMessages_KeepOne(values) ==
    [i \in 1..Len(AllButLast(values.messages, 1)) |->
        [id |-> values.messages[i].id, type |-> "remove", content |-> EmptyText]]
\* graph.py:70  [RemoveMessage(id=m.id) for m in state["messages"][:-2]]
DeleteMessages(values) ==
    [i \in 1..Len(AllButLast(values.messages, KeepLast)) |->
        [id |-> values.messages[i].id, type |-> "remove", content |-> EmptyText]]

NewSummary_Concatenated(values, response) == GetSummary(values) \o response.content
\* graph.py:71  "summary": response.content
NewSummary(values, response) == response.content

\* graph.py:57-71  summarize_conversation: the state update applied to the channels
summarize_conversation(values, response) ==
    [messages |-> add_messages(values.messages, DeleteMessages(values)),
     summary  |-> <<NewSummary(values, response)>>]

\* --------------------------------------------------------- server.py
\* server.py:74-96  _serialize_message: AIMessage -> ai, every other message -> human
_serialize_message(msg) ==
    [type |-> IF msg.type = "ai" THEN "ai" ELSE "human", content |-> msg.content]

\* server.py:98-100  _serialize_messages
_serialize_messages(messages) ==
    [i \in 1..Len(messages) |-> _serialize_message(messages[i])]

\* A JSON body: keys names the keys it holds, the other fields their values.
NoBody == [keys |-> {}, messages |-> <<>>, summary |-> EmptyText, error |-> ""]
NoResp == [status |-> 0, chunks |-> <<>>, body |-> NoBody]

\* server.py:121-122  invoke's return; resp has no "state" key, so "state" is {}
InvokeResponse(values) ==
    [status |-> 200, chunks |-> <<>>,
     body |-> [NoBody EXCEPT !.keys = {"messages", "state"},
                             !.messages = _serialize_messages(values.messages)]]

\* server.py:123-124  invoke's except: HTTPException(500, detail=str(e))
InvokeError(e) ==
    [status |-> 500, chunks |-> <<>>,
     body |-> [NoBody EXCEPT !.keys = {"detail"}, !.error = e]]

\* server.py:142-157  stream's generator on success: the two yields
StreamChunks(values) ==
    <<[field |-> "event", name |-> "message", data |-> NoBody],
      [field |-> "data", name |-> "",
       data |-> [NoBody EXCEPT !.keys = {"node", "messages", "state"},
                               !.messages = _serialize_messages(values.messages)]]>>

StreamErrorChunks_Raised(e) == <<>>
\* server.py:160-164  stream's except: the two yields of the error event
StreamErrorChunks(e) ==
    <<[field |-> "event", name |-> "error", data |-> NoBody],
      [field |-> "data", name |-> "",
       data |-> [NoBody EXCEPT !.keys = {"error"}, !.error = e]]>>

\* server.py:166  EventSourceResponse(generator()): always a 200 event stream
StreamResponse(chunks) == [status |-> 200, chunks |-> chunks, body |-> NoBody]

\* The events a client reads off the yielded text: an "event:" line names the
\* event its "data:" line completes (frontend app.py:54-65 reads them so).
RECURSIVE Events(_)
Events(chunks) ==
    IF chunks = <<>> THEN <<>>
    ELSE IF Head(chunks).field = "event" /\ Len(chunks) >= 2 /\ chunks[2].field = "data"
    THEN <<[event |-> Head(chunks).name, data |-> chunks[2].data]>>
             \o Events(Tail(Tail(chunks)))
    ELSE IF Head(chunks).field = "data"
    THEN <<[event |-> "message", data |-> Head(chunks).data]>> \o Events(Tail(chunks))
    ELSE Events(Tail(chunks))

get_thread_state_Unknown500(t) ==
    IF store[t].exists
    THEN [status |-> 200, chunks |-> <<>>,
          body |-> [NoBody EXCEPT !.keys = {"messages", "summary"},
                                  !.messages = _serialize_messages(store[t].values.messages),
                                  !.summary = GetSummary(store[t].values)]]
    ELSE [status |-> 500, chunks |-> <<>>,
          body |-> [NoBody EXCEPT !.keys = {"detail"}, !.error = "KeyError"]]
\* server.py:168-177  get_thread_state: compiled_graph.get_state never raises for
\* an unknown thread (its values are {}), and any exception gives the same body
get_thread_state(t) ==
    [status |-> 200, chunks |-> <<>>,
     body |-> [NoBody EXCEPT !.keys = {"messages", "summary"},
                             !.messages = _serialize_messages(store[t].values.messages),
                             !.summary = GetSummary(store[t].values)]]

\* graph.py:74  memory = MemorySaver(); server.py:50 finds it, so it is not None
MemoryIsNone == FALSE
\* server.py:184  MemorySaver has no attribute delete_state (it deletes with
\* delete_thread): the call raises AttributeError
MemorySaverHasDeleteState == FALSE

\* server.py:179-187  delete_thread: the response and the store it leaves
delete_thread(t) ==
    IF MemoryIsNone
    THEN [resp |-> InvokeError("Memory saver not available in graph module"), store |-> store]
    ELSE IF MemorySaverHasDeleteState
    THEN [resp |-> [status |-> 200, chunks |-> <<>>,
                    body |-> [NoBody EXCEPT !.keys = {"status"}]],
          store |-> [store EXCEPT ![t] = NoCheckpoint]]
    ELSE [resp |-> InvokeError("AttributeError"), store |-> store]

\* ------------------------------------------------------------- state
put_AnyThread(t, values) == [o \in Threads |-> Checkpoint(values)]
\* graph.py:74, 86, server.py:102-111  the checkpointer writes the checkpoint of
\* the thread_id of the run's config, and of no other
put(t, values) == [store EXCEPT ![t] = Checkpoint(values)]

HumanInput == [id |-> NoId, type |-> "human", content |-> HumanText]
\* server.py:66-67  InputPayload.messages: any list, the empty one included
Inputs == {[i \in 1..n |-> HumanInput] : n \in 0..MaxInput}

IdleReq == [pc |-> "idle", kind |-> "none", thread |-> "t1", input |-> <<>>,
            values |-> NoChannels]
NoObs == [pre |-> NoCheckpoint, id0 |-> 0, calls0 |-> 0, accum |-> 0]
NoLast == [kind |-> "none", thread |-> "t1", input |-> <<>>, resp |-> NoResp,
           asked |-> <<>>, prompted |-> <<>>,
           pre |-> NoCheckpoint, post |-> NoCheckpoint, id0 |-> 0, calls0 |-> 0,
           accum |-> 0, before |-> <<>>, answer |-> EmptyText, ncompact |-> 0,
           failed |-> FALSE, error |-> "", fresh |-> FALSE]

\* The record of request r as its handler answers.
Answered(r, resp, post) ==
    [NoLast EXCEPT !.kind = req[r].kind, !.thread = req[r].thread, !.input = req[r].input,
                   !.resp = resp, !.pre = obs[r].pre, !.post = post,
                   !.id0 = obs[r].id0, !.calls0 = obs[r].calls0, !.accum = obs[r].accum,
                   !.asked = obs[r].asked]

Init ==
    /\ store = [t \in Threads |-> NoCheckpoint]
    /\ nextId = [t \in Threads |-> 1]
    /\ calls = [t \in Threads |-> 0]
    /\ req = [r \in Slots |-> IdleReq]
    /\ obs = [r \in Slots |-> NoObs]
    /\ last = NoLast
    /\ removed = [t \in Threads |-> {}]
    /\ seen = {}
    /\ nreq = 0
    /\ nfail = 0

CanRun_NoLoop(r) == TRUE
CanRun_Stuck(r) == req[r].pc = "idle"
\* server.py:115-120, 127-139  the handlers are coroutines of one event loop and
\* compiled_graph.invoke is a synchronous call: while a handler is inside it
\* the loop runs no other handler
CanRun(r) == \A o \in Slots \ {r} : req[o].pc \notin {"conversation", "summarize"}

\* server.py:116-124 / 132-164  what the handler answers once the graph call
\* returned (ok) or raised (e)
Answer(kind, ok, values, e) ==
    IF kind = "invoke"
    THEN IF ok THEN InvokeResponse(values) ELSE InvokeError(e)
    ELSE StreamResponse(IF ok THEN StreamChunks(values) ELSE StreamErrorChunks(e))

\* graph.py:77-87, server.py:120  compiled_graph.invoke run to its end with the
\* oracle answering every call: START -> conversation -> (should_continue)
\* summarize_conversation -> END; the channels it leaves
GraphRun(checkpoint, inp, id0, calls0) ==
    LET new == AssignIds(inp, id0)
        v1 == [checkpoint.values EXCEPT !.messages = add_messages(@, new)]
        reply == [id |-> id0 + Len(new), type |-> "ai", content |-> OracleReply(calls0 + 1)]
        v2 == call_model(v1, reply)
        answer == [id |-> NoId, type |-> "ai", content |-> OracleReply(calls0 + 2)]
    IN IF should_continue(v2) = "summarize_conversation"
       THEN summarize_conversation(v2, answer)
       ELSE v2

\* ----------------------------------------------------------- actions
\* A request naming thread t is served: its handler starts in the first free
\* slot, when the event loop lets it run. Thread ids are opaque: the threads
\* are named in the order of first use.
Starts(r, t) ==
    /\ nreq < MaxRequests
    /\ req[r].pc = "idle"
    /\ \A o \in Slots : o < r => req[o].pc # "idle"
    /\ CanRun(r)
    /\ t = "t2" => (nreq > 0)

\* server.py:134-138  stream reads input_dict['messages'][-1] before the graph
\* runs: an empty list raises IndexError, answered by the error event
StreamEmptyInput(r, t) ==
    /\ Starts(r, t)
    /\ nreq' = nreq + 1
    /\ last' = [NoLast EXCEPT !.kind = "stream", !.thread = t,
                              !.resp = Answer("stream", FALSE, NoChannels, "IndexError"),
                              !.pre = store[t], !.post = store[t],
                              !.id0 = nextId[t], !.calls0 = calls[t],
                              !.failed = TRUE, !.error = "IndexError"]
    /\ seen' = seen \cup {t}
    /\ UNCHANGED <<store, nextId, calls, req, obs, removed, nfail>>

\* server.py:117-120 / 134-139 and the graph's start: compiled_graph.invoke loads
\* the thread's checkpoint, adds the input messages to the messages channel
\* and writes the checkpoint (graph.py:81, 86)
StartTurn(r, t, k, inp) ==
    LET new == AssignIds(inp, nextId[t])
        values == [store[t].values EXCEPT !.messages = add_messages(@, new)]
    IN /\ Starts(r, t)
       /\ ~(k = "stream" /\ inp = <<>>)
       /\ nreq' = nreq + 1
       /\ store' = put(t, values)
       /\ nextId' = [nextId EXCEPT ![t] = @ + Len(new)]
       /\ req' = [req EXCEPT ![r] = [pc |-> "conversation", kind |-> k, thread |-> t,
                                     input |-> inp, values |-> values]]
       /\ obs' = [obs EXCEPT ![r] = [pre |-> store[t], id0 |-> nextId[t],
                                     calls0 |-> calls[t], accum |-> Len(values.messages),
                                     asked |-> <<>>]]
       /\ last' = NoLast
       /\ seen' = seen \cup {t}
       /\ UNCHANGED <<calls, removed, nfail>>

\* graph.py:38-48, 82  the conversation node: the oracle answers, the reply is
\* added and checkpointed, and should_continue routes to summarize_conversation
\* or to the end, where the handler answers
ConversationOk(r) ==
    LET t == req[r].thread
        response == [id |-> nextId[t], type |-> "ai", content |-> OracleReply(calls[t] + 1)]
        values == call_model(req[r].values, response)
        next == should_continue(values)
    IN /\ req[r].pc = "conversation"
       /\ CanRun(r)
       /\ store' = put(t, values)
       /\ nextId' = [nextId EXCEPT ![t] = @ + 1]
       /\ calls' = [calls EXCEPT ![t] = @ + 1]
       /\ IF next = "summarize_conversation"
          THEN /\ req' = [req EXCEPT ![r].pc = "summarize", ![r].values = values]
               /\ obs' = [obs EXCEPT ![r].accum = Len(values.messages),
                                      ![r].asked = CallModelInput(req[r].values)]
               /\ last' = last
          ELSE /\ req' = [req EXCEPT ![r] = IdleReq]
               /\ obs' = [obs EXCEPT ![r] = NoObs]
               /\ last' = [Answered(r, Answer(req[r].kind, TRUE, values, ""), Checkpoint(values))
                             EXCEPT !.accum = Len(values.messages),
                                    !.asked = CallModelInput(req[r].values)]
       /\ UNCHANGED <<removed, seen, nreq, nfail>>

\* graph.py:46  model.invoke raises: the graph call raises, nothing more is written
ConversationFail(r) ==
    LET t == req[r].thread
    IN /\ req[r].pc = "conversation"
       /\ CanRun(r)
       /\ nfail < MaxFailures
       /\ nfail' = nfail + 1
       /\ req' = [req EXCEPT ![r] = IdleReq]
       /\ obs' = [obs EXCEPT ![r] = NoObs]
       /\ last' = [Answered(r, Answer(req[r].kind, FALSE, NoChannels, "OracleError"), store[t])
                     EXCEPT !.failed = TRUE, !.error = "OracleError",
                            !.asked = CallModelInput(req[r].values)]
       /\ UNCHANGED <<store, nextId, calls, removed, seen, nreq>>

\* graph.py:57-71, 83  the summarize_conversation node: the oracle answers, the
\* summary is set, all but the last two messages are removed, the checkpoint is
\* written and the graph ends, where the handler answers
SummarizeOk(r) ==
    LET t == req[r].thread
        response == [id |-> NoId, type |-> "ai", content |-> OracleReply(calls[t] + 1)]
        values == summarize_conversation(req[r].values, response)
    IN /\ req[r].pc = "summarize"
       /\ CanRun(r)
       /\ store' = put(t, values)
       /\ calls' = [calls EXCEPT ![t] = @ + 1]
       /\ removed' = [removed EXCEPT
                        ![t] = @ \cup (Ids(req[r].values.messages) \ Ids(values.messages))]
       /\ req' = [req EXCEPT ![r] = IdleReq]
       /\ obs' = [obs EXCEPT ![r] = NoObs]
       /\ last' = [Answered(r, Answer(req[r].kind, TRUE, values, ""), Checkpoint(values))
                     EXCEPT !.before = req[r].values.messages,
                            !.answer = response.content,
                            !.ncompact = 1,
                            !.prompted = SummarizeInput(req[r].values)]
       /\ UNCHANGED <<nextId, seen, nreq, nfail>>

\* graph.py:68  model.invoke raises in summarize_conversation
SummarizeFail(r) ==
    LET t == req[r].thread
    IN /\ req[r].pc = "summarize"
       /\ CanRun(r)
       /\ nfail < MaxFailures
       /\ nfail' = nfail + 1
       /\ req' = [req EXCEPT ![r] = IdleReq]
       /\ obs' = [obs EXCEPT ![r] = NoObs]
       /\ last' = [Answered(r, Answer(req[r].kind, FALSE, NoChannels, "OracleError"), store[t])
                     EXCEPT !.failed = TRUE, !.error = "OracleError",
                            !.prompted = SummarizeInput(req[r].values)]
       /\ UNCHANGED <<store, nextId, calls, removed, seen, nreq>>

\* server.py:168-177  GET /threads/{thread_id}/state
GetThreadState(r, t) ==
    /\ Starts(r, t)
    /\ nreq' = nreq + 1
    /\ last' = [NoLast EXCEPT !.kind = "get", !.thread = t, !.resp = get_thread_state(t),
                              !.pre = store[t], !.post = store[t],
                              !.fresh = (t \notin seen)]
    /\ UNCHANGED <<store, nextId, calls, req, obs, removed, seen, nfail>>

\* server.py:179-187  DELETE /threads/{thread_id}
DeleteThread(r, t) ==
    /\ Starts(r, t)
    /\ nreq' = nreq + 1
    /\ store' = delete_thread(t).store
    /\ last' = [NoLast EXCEPT !.kind = "delete", !.thread = t,
                              !.resp = delete_thread(t).resp,
                              !.pre = store[t], !.post = delete_thread(t).store[t],
                              !.failed = (delete_thread(t).resp.status # 200)]
    /\ seen' = seen \cup {t}
    /\ UNCHANGED <<nextId, calls, req, obs, removed, nfail>>

Next ==
    \/ \E r \in Slots, t \in Threads : StreamEmptyInput(r, t)
    \/ \E r \in Slots, t \in Threads, k \in {"invoke", "stream"}, inp \in Inputs :
           StartTurn(r, t, k, inp)
    \/ \E r \in Slots : ConversationOk(r)
    \/ \E r \in Slots : ConversationFail(r)
    \/ \E r \in Slots : SummarizeOk(r)
    \/ \E r \in Slots : SummarizeFail(r)
    \/ \E r \in Slots, t \in Threads : GetThreadState(r, t)
    \/ \E r \in Slots, t \in Threads : DeleteThread(r, t)

Spec == Init /\ [][Next]_vars

\* graph.py:46, 68  every model.invoke returns or raises: a node that has been
\* entered is left, and the run goes on to its next node or to its end
NodeReturns(r) ==
    ConversationOk(r) \/ ConversationFail(r) \/ SummarizeOk(r) \/ SummarizeFail(r)
\* The same service, followed over its first MaxFairRequests requests.
FairNext == Next /\ nreq' <= MaxFairRequests
FairSpec == Init /\ [][FairNext]_vars /\ \A r \in Slots : WF_vars(NodeReturns(r))


\* ------------------------------------------------------------ claims
Turns == {"invoke", "stream"}
\* The request answered last was a turn whose graph ran and ended without error.
TurnOk == last.kind \in Turns /\ ~last.failed
\* The request answered last was a turn whose graph ran (to its end or to a failure).
TurnRan == last.kind \in Turns /\ last.error # "IndexError"
Msgs(checkpoint) == checkpoint.values.messages
EmptyState == [messages |-> <<>>, summary |-> EmptyText]
StateOf(body) == [messages |-> body.messages, summary |-> body.summary]

\* C1: a turn that fails (the oracle fails in the reply call or in the
\* summarization call) leaves the thread's persisted messages and summary as
\* they were before the call.
C1_FailedTurnPersistsNothing ==
    (last.kind \in Turns /\ last.failed) => last.post.values = last.pre.values

\* C2: on a thread holding 6 persisted messages a successful turn with one
\* human message evaluates the predicate once, on the 8 messages after the ai
\* reply, and runs exactly one compaction, leaving 2 messages and a non-empty
\* summary; no turn runs more than one compaction.
C2_SeventhMessageCompactsOnce ==
    /\ last.ncompact <= 1
    /\ (TurnOk /\ Len(Msgs(last.pre)) = 6 /\ Len(last.input) = 1) =>
           /\ last.accum = 8
           /\ last.ncompact = 1
           /\ Len(Msgs(last.post)) = 2
           /\ last.post.values.summary # <<>>
           /\ GetSummary(last.post.values) # EmptyText

C2_Witness ==
    /\ TurnOk /\ Len(Msgs(last.pre)) = 6 /\ Len(last.input) = 1
    /\ last.ncompact = 1 /\ Len(Msgs(store[last.thread])) = 2

\* C3: a turn after which the thread has accumulated at most 6 messages runs no
\* compaction and leaves the summary as it was (absent if it was absent).
C3_NoCompactionUpToThreshold ==
    (TurnRan /\ last.accum <= 6) =>
        /\ last.ncompact = 0
        /\ last.post.values.summary = last.pre.values.summary

C3_Witness ==
    /\ TurnOk /\ last.accum <= 6 /\ last.accum > Len(Msgs(last.pre))
    /\ last.pre.values.summary # <<>>
    /\ store[last.thread].values.summary = last.pre.values.summary

\* C4: right after a compaction the stored messages are exactly the last two
\* messages stored right before it, in the same order.
C4_CompactionKeepsLastTwo ==
    last.ncompact = 1 =>
        /\ Len(last.before) > 6
        /\ Msgs(last.post) = <<last.before[Len(last.before) - 1], last.before[Len(last.before)]>>
        /\ store[last.thread] = last.post

C4_Witness ==
    /\ last.ncompact = 1 /\ Len(last.before) = 8
    /\ Msgs(store[last.thread]) = SubSeq(last.before, 7, 8)

InFlight == {r \in Slots : req[r].pc # "idle"}

\* C5: turns on one thread are serial: a graph run is never interleaved with
\* another, what it last wrote is what the store holds while it runs, and the
\* stored messages of a thread are, in the order written, every message ever
\* written to it except those a compaction removed: none lost, none duplicated.
C5_TurnsAreSerial ==
    /\ Cardinality(InFlight) <= 1
    /\ \A r \in InFlight : store[req[r].thread] = Checkpoint(req[r].values)
    /\ \A t \in Threads :
           /\ Ids(Msgs(store[t])) = (1..(nextId[t] - 1)) \ removed[t]
           /\ \A i \in 1..Len(Msgs(store[t])) : \A j \in 1..Len(Msgs(store[t])) :
                  i < j => Msgs(store[t])[i].id < Msgs(store[t])[j].id

C5_Witness ==
    \E r \in InFlight :
        /\ req[r].pc = "summarize"
        /\ Len(Msgs(obs[r].pre)) >= 2
        /\ store[req[r].thread] = Checkpoint(req[r].values)

\* C6: after a compaction the summary is exactly the text the oracle returned
\* for that compaction's call, whatever the summary was before.
C6_SummaryReplaced ==
    last.ncompact = 1 =>
        /\ last.post.values.summary = <<last.answer>>
        /\ last.answer = OracleReply(calls[last.thread])

C6_Witness ==
    /\ last.ncompact = 1
    /\ last.pre.values.summary # <<>>
    /\ last.pre.values.summary # <<last.answer>>
    /\ store[last.thread].values.summary = <<last.answer>>

\* C7: a deleteState on a thread that has persisted state succeeds, and a
\* getState then returns the empty state.
C7_DeleteThenGetEmpty ==
    (last.kind = "delete" /\ Msgs(last.pre) # <<>>) =>
        /\ last.resp.status = 200
        /\ StateOf(get_thread_state(last.thread).body) = EmptyState

\* C8: getState never fails and changes no stored state; for a thread never
\* seen it returns {messages: [], summary: ""} and creates no state.
C8_GetStateNeverFails ==
    last.kind = "get" =>
        /\ last.resp.status = 200
        /\ last.resp.body.keys = {"messages", "summary"}
        /\ last.post = last.pre
        /\ last.fresh => /\ StateOf(last.resp.body) = EmptyState
                         /\ ~store[last.thread].exists

C8_Witness ==
    /\ last.kind = "get" /\ last.fresh
    /\ \E t \in Threads \ {last.thread} : Len(Msgs(store[t])) >= 2
    /\ StateOf(last.resp.body) = EmptyState

C10_StreamEqualsInvoke ==
    LET out == GraphRun(last.pre, last.input, last.id0, last.calls0)
    IN /\ (last.kind = "invoke" /\ ~last.failed) =>
              /\ last.resp = InvokeResponse(out)
              /\ last.post = Checkpoint(out)
       /\ (last.kind = "stream" /\ last.error # "OracleError"
              /\ (last.input # <<>> \/ Msgs(last.pre) # <<>>)) =>
              /\ Len(Events(last.resp.chunks)) = 1
              /\ Events(last.resp.chunks)[1].event = "message"
              /\ Events(last.resp.chunks)[1].data.messages = InvokeResponse(out).body.messages
              /\ last.post = Checkpoint(out)


\* The messages the thread had accumulated when should_continue was evaluated
\* (a compaction, if one ran, pruned them afterwards).
Accumulated == IF last.ncompact = 1 THEN last.before ELSE Msgs(last.post)
\* Oracle calls answered for the turn answered last.
Answers == calls[last.thread] - last.calls0
AiReply(id, n) == [id |-> id, type |-> "ai", content |-> OracleReply(n)]

\* C11 (as stated): invoke runs one turn per human message of its input: for
\* an input of n >= 1 human messages the oracle is asked for n replies.
C11_OneTurnPerHumanMessage ==
    (TurnOk /\ last.kind = "invoke" /\ Len(last.input) >= 1) =>
        Answers - last.ncompact = Len(last.input)

\* C11 (amended): invoke runs the graph once per request, whatever the number
\* n of human messages: the n messages are appended in order, the oracle is
\* asked for one reply, which follows the last of them, and the compaction
\* predicate is evaluated once, on all of them.
C11_OneGraphRunPerRequest ==
    (TurnOk /\ last.kind = "invoke") =>
        /\ Answers = 1 + last.ncompact
        /\ Accumulated = Msgs(last.pre) \o AssignIds(last.input, last.id0)
                             \o <<AiReply(last.id0 + Len(last.input), last.calls0 + 1)>>
        /\ last.accum = Len(Accumulated)
        /\ last.ncompact = (IF last.accum > SummarizeThreshold THEN 1 ELSE 0)

C11_Witness ==
    /\ TurnOk /\ last.kind = "invoke" /\ Len(last.input) = 2 /\ Msgs(last.pre) # <<>>
    /\ Answers = 1
    /\ Len(Msgs(store[last.thread])) = Len(Msgs(last.pre)) + 3

\* What the client of a turn is handed: invoke's JSON body, or the data of the
\* stream's event.
Payload(resp) ==
    IF resp.chunks = <<>> THEN resp.body ELSE Events(resp.chunks)[1].data

\* C12: the result of every successful turn carries the messages, ending with
\* the ai message generated in that turn (also after a compaction), together
\* with the thread's summary as it stands after the turn.
C12_ResultCarriesTailAndSummary ==
    (TurnOk /\ GetSummary(last.post.values) # EmptyText) =>
        LET p == Payload(last.resp) IN
        /\ p.messages # <<>>
        /\ p.messages[Len(p.messages)] =
               _serialize_message(AiReply(last.id0 + Len(last.input), last.calls0 + 1))
        /\ "summary" \in p.keys
        /\ p.summary = GetSummary(last.post.values)

\* C13: deleteState fails, changing no stored state, when the checkpointer is
\* not wired up; when it is wired up the call is acknowledged and the thread's
\* persisted state is erased.
C13_DeleteFailsOnlyUnwired ==
    last.kind = "delete" =>
        IF MemoryIsNone
        THEN /\ last.resp.status = 500
             /\ last.post = last.pre
        ELSE /\ last.resp.status = 200
             /\ last.resp.body.keys = {"status"}
             /\ last.post = NoCheckpoint
             /\ store[last.thread] = NoCheckpoint

\* A message the nodes build for the oracle only: the system message carrying
\* the summary, or the human message carrying the summarization prompt.
Synthesized(m) ==
    \/ m.type = "system"
    \/ m.id = NoId
    \/ m.content # <<>> /\ m.content[1] \in {SummaryPrefix[1], ExtendPrefix[1], CreatePrompt[1]}
\* The thread's messages as the reply step of the turn answered last found them.
StoredAtReply == Msgs(last.pre) \o AssignIds(last.input, last.id0)

\* C14: synthesized messages are transient. No persisted state holds the system
\* message "Summary of conversation earlier: ..." or the summarization prompt;
\* the oracle input of the reply step is that system message followed by all
\* stored messages when a summary is present, and the stored messages alone
\* otherwise; the summarization prompt is handed to the oracle after them.
C14_SynthesizedMessagesTransient ==
    /\ \A t \in Threads : \A i \in 1..Len(Msgs(store[t])) : ~Synthesized(Msgs(store[t])[i])
    /\ TurnRan =>
           last.asked =
               IF GetSummary(last.pre.values) # EmptyText
               THEN <<[id |-> NoId, type |-> "system",
                       content |-> SummaryPrefix \o GetSummary(last.pre.values)]>>
                        \o StoredAtReply
               ELSE StoredAtReply
    /\ last.prompted # <<>> =>
           /\ Len(last.prompted) = last.accum + 1
           /\ SubSeq(last.prompted, 1, last.accum)
                  = StoredAtReply \o <<AiReply(last.id0 + Len(last.input), last.calls0 + 1)>>
           /\ Synthesized(last.prompted[Len(last.prompted)])
           /\ last.prompted[Len(last.prompted)].type = "human"

C14_Witness ==
    /\ TurnOk /\ last.ncompact = 1
    /\ GetSummary(last.pre.values) # EmptyText
    /\ last.asked[1].type = "system"
    /\ last.prompted[Len(last.prompted)].content[1] = ExtendPrefix[1]
    /\ Len(Msgs(store[last.thread])) = KeepLast

IsPrefix(a, b) == Len(a) <= Len(b) /\ SubSeq(b, 1, Len(a)) = a
\* Messages stored before and after a step keep their relative order: those of
\* the old list that remain are, in the old order, those of the new list that
\* were there before.
OrderKept(a, b) ==
    LET inA == {a[k] : k \in 1..Len(a)}
        inB == {b[k] : k \in 1..Len(b)}
    IN SelectSeq(a, LAMBDA m : m \in inB) = SelectSeq(b, LAMBDA m : m \in inA)

\* C15: messages is append-only and chronological except for compaction. A
\* successful turn without compaction leaves the messages stored before it,
\* then the submitted human messages, then the ai reply; a step that is not a
\* compaction only appends to a thread's stored messages; and no step changes
\* the relative order of two messages that both remain stored.
C15_AppendOnlyExceptCompaction ==
    [][/\ (TurnOk /\ last.ncompact = 0)' =>
              (Msgs(last.post) = StoredAtReply
                   \o <<AiReply(last.id0 + Len(last.input), last.calls0 + 1)>>)'
       /\ \A t \in Threads :
              /\ removed'[t] = removed[t] => IsPrefix(Msgs(store[t]), Msgs(store'[t]))
              /\ OrderKept(Msgs(store[t]), Msgs(store'[t]))]_vars

C15_Witness ==
    /\ TurnOk /\ last.ncompact = 0
    /\ Len(Msgs(last.pre)) = KeepLast /\ removed[last.thread] # {}
    /\ Len(last.input) = 2
    /\ Len(Msgs(store[last.thread])) = KeepLast + 3

\* The threads a step acts for: the thread of a request in flight before or
\* after the step, or of the request the step answers.
ActsOn ==
    {req[r].thread : r \in InFlight}
        \cup {req'[r].thread : r \in {o \in Slots : req'[o].pc # "idle"}}
        \cup (IF last'.kind # "none" /\ last' # last THEN {last'.thread} ELSE {})

\* C16: threads are independent. Every step of an operation on a thread (the
\* start of a turn, a reply, a failure, a compaction, a getState, a
\* deleteState), under any interleaving of requests, leaves the persisted
\* messages and summary of every other thread unchanged.
C16_ThreadsIndependent ==
    [][/\ Cardinality(ActsOn) <= 1
       /\ \A t \in Threads \ ActsOn : store'[t] = store[t]]_vars

C16_Witness ==
    /\ TurnOk /\ last.ncompact = 1
    /\ \E t \in Threads \ {last.thread} :
           /\ Len(Msgs(store[t])) > KeepLast
           /\ GetSummary(store[t].values) = EmptyText

\* C17: bounded history. After every successfully completed turn, whatever
\* successes, failures and deletes came before and however many messages the
\* input carried, the thread persists at most six messages.
C17_BoundedHistory ==
    TurnOk =>
        /\ Len(Msgs(last.post)) <= SummarizeThreshold
        /\ Len(Msgs(store[last.thread])) <= SummarizeThreshold

C17_Witness ==
    /\ TurnOk
    /\ Len(Msgs(last.pre)) > SummarizeThreshold
    /\ Len(last.input) >= 2
    /\ Len(Msgs(store[last.thread])) = KeepLast

\* C18: every turn terminates and its thread is idle again. Every oracle call
\* returning, a started turn is in its reply step, then at most once in its
\* summarization step, and is eventually answered; the summarization step is
\* never followed by another node; and once a turn is answered, with success
\* or failure, a further turn can start on every thread.
C18_TurnTerminates ==
    /\ \A r \in Slots : (req[r].pc # "idle") ~> (req[r].pc = "idle")
    /\ [][\A r \in Slots :
              /\ req[r].pc = "idle" => req'[r].pc \in {"idle", "conversation"}
              /\ req[r].pc = "conversation" =>
                     req'[r].pc \in {"conversation", "summarize", "idle"}
              /\ req[r].pc = "summarize" => req'[r].pc \in {"summarize", "idle"}
              /\ (req[r].pc # "idle" /\ req'[r].pc = "idle" /\ nreq < MaxRequests) =>
                     \A t \in Threads :
                         (ENABLED StartTurn(1, t, "invoke", <<HumanInput>>))']_vars

C18_Witness ==
    /\ InFlight = {}
    /\ last.kind \in Turns /\ last.ncompact = 1
    /\ nreq >= 2

====
